---- MODULE Spec2Model ----
(***************************************************************************)
(* ThreeBodySimulator of 3BodyProblem.py: the simulator's state, its       *)
(* constructor, compute_accelerations, the RK4 step update_system with its *)
(* inner helper derivatives, and analyze_chaos.                            *)
(*                                                                         *)
(* Arithmetic.  The source computes in float64.  The model computes in     *)
(* fixed point: every quantity is an integer number of units, and every    *)
(* operation whose exact result is not a whole number of units (division,  *)
(* square root, logarithm) rounds to the nearest unit, as a float64        *)
(* operation rounds to the nearest representable value.  Sums, differences *)
(* and products of integers are exact.                                     *)
(*                                                                         *)
(* Units.  Mass: 0.05 MASS_SCALE.  Length: DISTANCE_SCALE / 20.  Time: one *)
(* step dt (100 days).  They are chosen so that more than 1000 steps of    *)
(* the simulation fit TLC's 32-bit integers.                               *)
(*                                                                         *)
(* References.  numpy arrays are objects: a name may hold an array of its  *)
(* own or refer to the live self.positions / self.velocities.  The model   *)
(* keeps that distinction (Own, Alias, RowView, Deref).                    *)
(***************************************************************************)
EXTENDS Integers, Sequences, FiniteSets, TLC

VARIABLES
    masses,             \* self.masses
    positions,          \* self.positions
    velocities,         \* self.velocities
    time,               \* self.time
    trajectories,       \* self.trajectories: one deque per body
    chaos_data,         \* self.chaos_data: deques 'times', 'separations', 'lyapunov'
    initial_separation, \* self.initial_separation
    pc,                 \* where the control is: "idle", "call", "eval", "combine", or a probe's
    stage,              \* which of k1..k4 update_system is evaluating
    pos_arg,            \* derivatives' parameter pos
    vel_arg,            \* derivatives' parameter vel
    old_pos,            \* derivatives' local old_pos
    k,                  \* update_system's locals k1..k4: k[s].pos, k[s].vel
    accelerations,      \* the value compute_accelerations returned last
    entry,              \* history: the state update_system was called in
    calls,              \* history: how many update_system calls have begun
    h_pos,              \* history: the positions after each completed step
    h_chaos             \* history: the (years, ratio, lyapunov) of each completed step

vars == <<masses, positions, velocities, time, trajectories, chaos_data,
          initial_separation, pc, stage, pos_arg, vel_arg, old_pos, k,
          accelerations, entry, calls, h_pos, h_chaos>>

(***************************************************************************)
(* Bounds of the model.                                                    *)
(***************************************************************************)
MaxSteps == 1003    \* update_system calls explored, a call being one step
MaxStagedSteps == 503 \* update_system calls explored stage by stage
MaxSamples == 10    \* analyze_chaos calls explored on chosen separations
GridMax == 1        \* probe inputs: coordinates in -GridMax..GridMax
ProbeMassMax == 2   \* probe inputs: the mass of the heavy body among unit masses
RATIO_ONE == 1000   \* fixed point: units per 1.0 of a separation ratio
LOG_ONE == 1000     \* fixed point: units per 1.0 of a logarithm
YEAR_ONE == 100     \* fixed point: units per year in chaos_data['times']

(***************************************************************************)
(* Program constants, in the model's units.                                *)
(***************************************************************************)
MASS_SCALE == 20
DISTANCE_SCALE == 20
G_scaled == 25
DAYS_PER_STEP == 100
dt == 1
trajectory_length == 500
CHAOS_MAXLEN == 1000

Bodies == 0 .. 2
Axes == 1 .. 2
Stages == 1 .. 4

(***************************************************************************)
(* Rounding arithmetic.                                                    *)
(***************************************************************************)
Abs(x) == IF x < 0 THEN -x ELSE x

Min(a, b) == IF a < b THEN a ELSE b

\* a / b for b > 0, rounded to the nearest integer (halves away from zero).
RDiv(a, b) == IF a >= 0 THEN (2 * a + b) \div (2 * b) ELSE -((2 * (-a) + b) \div (2 * b))

RECURSIVE FloorSqrt(_, _, _)
\* The largest s in lo..hi with s*s <= x (hi*hi does not overflow).
FloorSqrt(x, lo, hi) ==
    IF lo = hi THEN lo
    ELSE LET mid == (lo + hi + 1) \div 2
         IN  IF mid * mid <= x THEN FloorSqrt(x, mid, hi) ELSE FloorSqrt(x, lo, mid - 1)

\* np.sqrt: the square root rounded to the nearest integer.
Sqrt(x) ==
    LET s == FloorSqrt(x, 0, 46340)
    IN  IF x - s * s > s THEN s + 1 ELSE s

VecSub(a, b) == <<a[1] - b[1], a[2] - b[2]>>

\* np.linalg.norm of a 2-vector.
Norm(v) == Sqrt(v[1] * v[1] + v[2] * v[2])

ZeroVec == <<0, 0>>

ZeroArray == [i \in Bodies |-> ZeroVec]

CeilDiv(a, b) == (a + b - 1) \div b

(***************************************************************************)
(* Arrays and references to them.  An array value is [i \in Bodies |->     *)
(* <<x, y>>].  A name holds either an array of its own or the live         *)
(* self.positions / self.velocities; a trajectory entry holds either a     *)
(* 2-vector of its own or a view of a row of self.positions.               *)
(***************************************************************************)
Own(a) == [alias |-> "own", val |-> a]

Alias(name) == [alias |-> name, val |-> ZeroArray]

\* The array the reference x stands for when the live arrays are P and V.
DerefIn(x, P, V) ==
    IF x.alias = "positions" THEN P
    ELSE IF x.alias = "velocities" THEN V
    ELSE x.val

Deref(x) == DerefIn(x, positions, velocities)

\* self.positions[i]: a view of row i of the live array.
RowView(i) == [row |-> i]

\* The 2-vector the entry e stands for when the live positions are P.
RowIn(e, P) == IF "row" \in DOMAIN e THEN P[e.row] ELSE e.val

\* e.copy(): a 2-vector of its own, holding what e holds now.
RowCopy(e, P) == [val |-> RowIn(e, P)]

\* Mutant: a full deque drops the new entry, not the oldest.
DequeAppend_DropNewest(q, x, maxlen) ==
    IF Len(q) < maxlen THEN Append(q, x) ELSE q

\* deque(maxlen).append(x): the oldest entry is dropped from a full deque.
DequeAppend(q, x, maxlen) ==
    IF Len(q) < maxlen THEN Append(q, x) ELSE Append(Tail(q), x)

(***************************************************************************)
(* __init__: the literal initial data and adjust_center_of_mass.           *)
(***************************************************************************)
InitialMasses ==
    [i \in Bodies |-> RDiv((IF i = 0 THEN 100 ELSE IF i = 1 THEN 10 ELSE 5) * MASS_SCALE, 100)]

InitialPositions ==
    [i \in Bodies |->
        IF i = 0 THEN <<0, 0>>
        ELSE IF i = 1 THEN <<RDiv(150 * DISTANCE_SCALE, 100), 0>>
        ELSE <<RDiv(75 * DISTANCE_SCALE, 100), RDiv(130 * DISTANCE_SCALE, 100)>>]

\* np.sqrt(G_scaled * MASS_SCALE / DISTANCE_SCALE)
VelocityScale == Sqrt(RDiv(G_scaled * MASS_SCALE, DISTANCE_SCALE))

InitialVelocities ==
    [i \in Bodies |->
        IF i = 0 THEN <<0, VelocityScale>>
        ELSE IF i = 1 THEN <<0, -3 * VelocityScale>>
        ELSE <<RDiv(-25 * VelocityScale, 10), RDiv(15 * VelocityScale, 10)>>]

\* np.sum(self.masses[:, np.newaxis] * x, axis=0), component c.
WeightedSum(m, x, c) == m[0] * x[0][c] + m[1] * x[1][c] + m[2] * x[2][c]

TotalMass(m) == m[0] + m[1] + m[2]

\* Mutant: the mean of the rows, not their mass-weighted mean.
CenterOf_Unweighted(m, x) ==
    <<RDiv(x[0][1] + x[1][1] + x[2][1], 3), RDiv(x[0][2] + x[1][2] + x[2][2], 3)>>

\* com of the array x under the masses m.
CenterOf(m, x) == <<RDiv(WeightedSum(m, x, 1), TotalMass(m)), RDiv(WeightedSum(m, x, 2), TotalMass(m))>>

\* adjust_center_of_mass: the arrays after "-= com_pos" and "-= com_vel".
adjust_center_of_mass(m, p, v) ==
    [positions |-> [i \in Bodies |-> VecSub(p[i], CenterOf(m, p))],
     velocities |-> [i \in Bodies |-> VecSub(v[i], CenterOf(m, v))]]

(***************************************************************************)
(* compute_accelerations.                                                  *)
(***************************************************************************)
\* Mutant: no softening.
softening_none == 0 * DISTANCE_SCALE

\* 0.0001 * DISTANCE_SCALE: positive, and so at least one unit of length.
softening == CeilDiv(DISTANCE_SCALE, 10000)

\* distance_softened for the ordered pair (i, j) at the positions p.
distance_softened(p, i, j) ==
    LET distance == Norm(VecSub(p[j], p[i]))
    IN  Sqrt(distance * distance + softening * softening)

\* x / d**3, the division by the cube done as three divisions by d.
DivCube(x, d) == RDiv(RDiv(RDiv(x, d), d), d)

\* Mutant: the attracted body's own mass in place of the attracting one's.
PairTerm_OwnMass(p, m, i, j) ==
    LET r_vec == VecSub(p[j], p[i])
        d == distance_softened(p, i, j)
    IN  IF d = 0 THEN ZeroVec
        ELSE <<RDiv(RDiv(RDiv(G_scaled * m[i] * r_vec[1], d), d), d),
               RDiv(RDiv(RDiv(G_scaled * m[i] * r_vec[2], d), d), d)>>

\* force_magnitude * r_vec for the ordered pair (i, j): what the inner loop
\* adds to accelerations[i].  With distance_softened = 0 the source divides
\* by zero and the term is not finite; the model then carries no number.
PairTerm(p, m, i, j) ==
    LET r_vec == VecSub(p[j], p[i])
        d == distance_softened(p, i, j)
    IN  IF d = 0 THEN ZeroVec
        ELSE <<DivCube(G_scaled * m[j] * r_vec[1], d), DivCube(G_scaled * m[j] * r_vec[2], d)>>

\* a: the accelerations array; finite: no term divided by zero.
compute_accelerations(p, m) ==
    [a |-> [i \in Bodies |->
              LET o1 == (i + 1) % 3
                  o2 == (i + 2) % 3
                  lo == Min(o1, o2)
                  hi == IF lo = o1 THEN o2 ELSE o1
              IN  <<PairTerm(p, m, i, lo)[1] + PairTerm(p, m, i, hi)[1],
                    PairTerm(p, m, i, lo)[2] + PairTerm(p, m, i, hi)[2]>>],
     finite |-> \A i \in Bodies : \A j \in Bodies \ {i} : distance_softened(p, i, j) # 0]

(***************************************************************************)
(* analyze_chaos.                                                          *)
(***************************************************************************)
\* self.time / (DAY * 365.25): years, in units of 1 / YEAR_ONE.
YearsOf(t) == RDiv(t * DAYS_PER_STEP * YEAR_ONE * 100, 36525)

\* current_separation / self.initial_separation, in units of 1 / RATIO_ONE.
SeparationRatio(p, init_sep) == RDiv(Norm(VecSub(p[1], p[2])) * RATIO_ONE, init_sep)

Pow2 == <<1, 2, 4, 8, 16, 32, 64, 128, 256, 512, 1024, 2048, 4096, 8192, 16384,
          32768, 65536, 131072, 262144, 524288, 1048576, 2097152, 4194304,
          8388608, 16777216, 33554432, 67108864, 134217728, 268435456,
          536870912, 1073741824>>

\* The e with 2^e <= x < 2^(e+1), for x >= 1.
Log2Floor(x) == CHOOSE e \in 0 .. 30 : Pow2[e + 1] <= x /\ (e = 30 \/ x < Pow2[e + 2])

\* log2(x) in units of 1 / LOG_ONE, linear between the powers of two.
Log2Fix(x) ==
    LET e == Log2Floor(x)
    IN  e * LOG_ONE + RDiv((x - Pow2[e + 1]) * LOG_ONE, Pow2[e + 1])

\* np.log of a ratio x > 0 held in units of 1 / RATIO_ONE, in units of 1 / LOG_ONE.
Log(x) == RDiv((Log2Fix(x) - Log2Fix(RATIO_ONE)) * 693, 1000)

RECURSIVE SumRange(_, _, _)
\* s[lo] + ... + s[hi], summed pairwise as np.mean sums.
SumRange(s, lo, hi) ==
    IF lo > hi THEN 0
    ELSE IF lo = hi THEN s[lo]
    ELSE LET mid == (lo + hi) \div 2
         IN  SumRange(s, lo, mid) + SumRange(s, mid + 1, hi)

\* np.diff(s)
Diff(s) == [n \in 1 .. Len(s) - 1 |-> s[n + 1] - s[n]]

\* np.mean(s), for a non-empty s.
Mean(s) == RDiv(SumRange(s, 1, Len(s)), Len(s))

\* separations > 1e-10: 1e-10 is below one unit of a ratio.
IsValidSeparation(x) == x > RDiv(RATIO_ONE, 10000000) \div 1000

\* Mutant: the estimate starts after 5 samples.
SamplesSuffice_Early(n) == n > 5

\* len(self.chaos_data['separations']) > 10
SamplesSuffice(n) == n > 10

\* The value analyze_chaos appends to chaos_data['lyapunov'] when the
\* separations deque holds seps (the new sample included).
LyapunovEstimate(seps) ==
    IF SamplesSuffice(Len(seps))
    THEN LET valid_separations == SelectSeq(seps, IsValidSeparation)
         IN  IF Len(valid_separations) > 5
             THEN Mean(Diff([n \in 1 .. Len(valid_separations) |-> Log(valid_separations[n])]))
             ELSE 0
    ELSE 0

\* Mutant: the time is recorded as it was before the step.
analyze_chaos_StaleTime(cd, p, t, init_sep) ==
    LET seps == DequeAppend(cd.separations, SeparationRatio(p, init_sep), CHAOS_MAXLEN)
    IN  [times |-> DequeAppend(cd.times, RDiv((t - dt) * DAYS_PER_STEP * YEAR_ONE * 100, 36525),
                               CHAOS_MAXLEN),
         separations |-> seps,
         lyapunov |-> DequeAppend(cd.lyapunov,
                                  IF Len(seps) > 10 THEN 1 ELSE 0, CHAOS_MAXLEN)]

\* analyze_chaos: chaos_data after the call, at positions p and time t.
analyze_chaos(cd, p, t, init_sep) ==
    LET seps == DequeAppend(cd.separations, SeparationRatio(p, init_sep), CHAOS_MAXLEN)
    IN  [times |-> DequeAppend(cd.times, YearsOf(t), CHAOS_MAXLEN),
         separations |-> seps,
         lyapunov |-> DequeAppend(cd.lyapunov, LyapunovEstimate(seps), CHAOS_MAXLEN)]

(***************************************************************************)
(* update_system and its helper derivatives.  A frame f holds the arrays   *)
(* and the locals the call works on: positions, velocities (the live       *)
(* arrays), pos_arg, vel_arg, old_pos (derivatives' pos, vel, old_pos),    *)
(* k (k1..k4) and accelerations (what compute_accelerations returned).     *)
(***************************************************************************)
\* base + (num / den) * kk, elementwise.
Axpy(base, num, den, kk) ==
    [i \in Bodies |-> <<base[i][1] + RDiv(num * kk[i][1], den),
                        base[i][2] + RDiv(num * kk[i][2], den)>>]

FrameDeref(f, x) == DerefIn(x, f.positions, f.velocities)

\* The argument pos of the call of derivatives for stage s.
StagePos(f, s) ==
    IF s = 1 THEN Alias("positions")
    ELSE IF s = 4 THEN Own(Axpy(f.positions, dt, 1, FrameDeref(f, f.k[3].pos)))
    ELSE Own(Axpy(f.positions, dt, 2, FrameDeref(f, f.k[s - 1].pos)))

\* The argument vel of the call of derivatives for stage s.
StageVel(f, s) ==
    IF s = 1 THEN Alias("velocities")
    ELSE IF s = 4 THEN Own(Axpy(f.velocities, dt, 1, FrameDeref(f, f.k[3].vel)))
    ELSE Own(Axpy(f.velocities, dt, 2, FrameDeref(f, f.k[s - 1].vel)))

\* old_pos = self.positions.copy()
SavedPositions(f) == Own(f.positions)

\* Mutant: derivatives does not restore self.positions.
RestoredPositions_Kept(f) == f.positions

\* self.positions[:] = old_pos: the array self.positions holds afterwards.
RestoredPositions(f) == FrameDeref(f, f.old_pos)

\* The call of derivatives for stage s, up to "self.positions[:] = pos".
derivatives_enter(f, s) ==
    [f EXCEPT !.pos_arg = StagePos(f, s),
              !.vel_arg = StageVel(f, s),
              !.old_pos = SavedPositions(f),
              !.positions = FrameDeref(f, StagePos(f, s))]

\* The rest of the call: acc, the restore, and "return vel, acc" into k[s].
derivatives_return(f, s, m) ==
    LET acc == compute_accelerations(f.positions, m)
    IN  [f EXCEPT !.accelerations = acc,
                  !.positions = RestoredPositions(f),
                  !.k[s] = [pos |-> f.vel_arg, vel |-> Own(acc.a)]]

derivatives(f, s, m) ==
    LET entered == derivatives_enter(f, s)
    IN  derivatives_return(entered, s, m)

\* k1 + 2*k2 + 2*k3 + k4 of the arrays kv[1..4].
KSum(kv) ==
    [i \in Bodies |-> <<kv[1][i][1] + 2 * kv[2][i][1] + 2 * kv[3][i][1] + kv[4][i][1],
                        kv[1][i][2] + 2 * kv[2][i][2] + 2 * kv[3][i][2] + kv[4][i][2]>>]

\* self.positions += (self.dt/6) * (k1_pos + 2*k2_pos + 2*k3_pos + k4_pos)
CombinedPositions(f) ==
    Axpy(f.positions, dt, 6, KSum([s \in Stages |-> FrameDeref(f, f.k[s].pos)]))

\* self.velocities += (self.dt/6) * (k1_vel + 2*k2_vel + 2*k3_vel + k4_vel)
CombinedVelocities(f) ==
    Axpy(f.velocities, dt, 6, KSum([s \in Stages |-> FrameDeref(f, f.k[s].vel)]))

\* Mutant: the time is advanced twice.
AdvancedTime_Twice(t) == t + dt + dt

\* self.time += self.dt
AdvancedTime(t) == t + dt

\* Mutant: the entry is the view self.positions[i], not a copy of it.
TrajectoryEntry_View(i, P) == RowView(i)

\* self.positions[i].copy(): the entry appended to trajectories[i] at positions P.
TrajectoryEntry(i, P) == RowCopy(RowView(i), P)

\* The loop "for i: self.trajectories[i].append(...)" at positions P.
AppendTrajectories(tr, P) ==
    [i \in Bodies |-> DequeAppend(tr[i], TrajectoryEntry(i, P), trajectory_length)]

NoRef == Own(ZeroArray)

NoLocals == [s \in Stages |-> [pos |-> NoRef, vel |-> NoRef]]

\* The frame of the running state.
Frame ==
    [positions |-> positions, velocities |-> velocities, pos_arg |-> pos_arg,
     vel_arg |-> vel_arg, old_pos |-> old_pos, k |-> k, accelerations |-> accelerations]

\* The frame f becomes the running state; the locals are kept.
SetFrame(f) ==
    /\ positions' = f.positions
    /\ velocities' = f.velocities
    /\ pos_arg' = f.pos_arg
    /\ vel_arg' = f.vel_arg
    /\ old_pos' = f.old_pos
    /\ k' = f.k
    /\ accelerations' = f.accelerations

\* What update_system does once k1..k4 are in the frame f: the combined
\* update, the time, the trajectory append and analyze_chaos.  The locals
\* go out of scope.
Finish(f) ==
    /\ positions' = CombinedPositions(f)
    /\ velocities' = CombinedVelocities(f)
    /\ time' = AdvancedTime(time)
    /\ trajectories' = AppendTrajectories(trajectories, positions')
    /\ chaos_data' = analyze_chaos(chaos_data, positions', time', initial_separation)
    /\ h_pos' = Append(h_pos, positions')
    /\ h_chaos' = Append(h_chaos, <<YearsOf(time'),
                                    SeparationRatio(positions', initial_separation),
                                    chaos_data'.lyapunov[Len(chaos_data'.lyapunov)]>>)
    /\ pos_arg' = NoRef
    /\ vel_arg' = NoRef
    /\ old_pos' = NoRef
    /\ k' = NoLocals
    /\ accelerations' = f.accelerations

EntryState == [positions |-> positions, velocities |-> velocities,
               masses |-> masses, time |-> time]

\* sim.update_system(), as one step.
update_system ==
    /\ pc = "idle"
    /\ calls < MaxSteps
    /\ calls' = calls + 1
    /\ entry' = EntryState
    /\ \E f1 \in {derivatives(Frame, 1, masses)} :
       \E f2 \in {derivatives(f1, 2, masses)} :
       \E f3 \in {derivatives(f2, 3, masses)} :
       \E f4 \in {derivatives(f3, 4, masses)} : Finish(f4)
    /\ UNCHANGED <<masses, initial_separation, pc, stage>>

\* The simulator as ThreeBodySimulator() leaves it.
Init ==
    /\ masses = InitialMasses
    /\ positions = adjust_center_of_mass(InitialMasses, InitialPositions, InitialVelocities).positions
    /\ velocities = adjust_center_of_mass(InitialMasses, InitialPositions, InitialVelocities).velocities
    /\ time = 0
    /\ trajectories = [i \in Bodies |-> <<>>]
    /\ chaos_data = [times |-> <<>>, separations |-> <<>>, lyapunov |-> <<>>]
    /\ initial_separation = Norm(VecSub(positions[1], positions[2]))
    /\ pc = "idle"
    /\ stage = 0
    /\ pos_arg = NoRef
    /\ vel_arg = NoRef
    /\ old_pos = NoRef
    /\ k = NoLocals
    /\ accelerations = [a |-> ZeroArray, finite |-> TRUE]
    /\ entry = EntryState
    /\ calls = 0
    /\ h_pos = <<>>
    /\ h_chaos = <<>>

Next == update_system

Spec == Init /\ [][Next]_vars

(***************************************************************************)
(* The same call, stage by stage: the states between the writes of         *)
(* self.positions inside derivatives are states of this specification.     *)
(***************************************************************************)
\* sim.update_system() is called.
UpdateSystemCall ==
    /\ pc = "idle"
    /\ calls < MaxStagedSteps
    /\ pc' = "call"
    /\ stage' = 1
    /\ calls' = calls + 1
    /\ entry' = EntryState
    /\ UNCHANGED <<masses, positions, velocities, time, trajectories, chaos_data,
                   initial_separation, pos_arg, vel_arg, old_pos, k, accelerations,
                   h_pos, h_chaos>>

\* derivatives(pos, vel) is called for the stage: old_pos is saved and
\* self.positions is overwritten with pos.
DerivEnter ==
    /\ pc = "call"
    /\ SetFrame(derivatives_enter(Frame, stage))
    /\ pc' = "eval"
    /\ UNCHANGED <<masses, time, trajectories, chaos_data, initial_separation,
                   stage, entry, calls, h_pos, h_chaos>>

\* derivatives computes acc, restores self.positions and returns (vel, acc).
DerivReturn ==
    /\ pc = "eval"
    /\ SetFrame(derivatives_return(Frame, stage, masses))
    /\ IF stage < 4
       THEN stage' = stage + 1 /\ pc' = "call"
       ELSE stage' = 0 /\ pc' = "combine"
    /\ UNCHANGED <<masses, time, trajectories, chaos_data, initial_separation,
                   entry, calls, h_pos, h_chaos>>

\* The rest of update_system.
Combine ==
    /\ pc = "combine"
    /\ Finish(Frame)
    /\ pc' = "idle"
    /\ UNCHANGED <<masses, initial_separation, stage, entry, calls>>

NextStages == UpdateSystemCall \/ DerivEnter \/ DerivReturn \/ Combine

SpecStages == Init /\ [][NextStages]_vars

(***************************************************************************)
(* analyze_chaos on chosen separations: the bodies 1 and 2 are put at a    *)
(* chosen separation (none, the initial one, twice the initial one) before *)
(* each call, so that every short series of ratios occurs.                 *)
(***************************************************************************)
ProbeSeparations == {0, initial_separation, 2 * initial_separation}

AnalyzeChaosAt(d) ==
    /\ pc = "idle"
    /\ calls < MaxSamples
    /\ calls' = calls + 1
    /\ positions' = [i \in Bodies |-> IF i = 1 THEN <<d, 0>> ELSE ZeroVec]
    /\ time' = AdvancedTime(time)
    /\ chaos_data' = analyze_chaos(chaos_data, positions', time', initial_separation)
    /\ UNCHANGED <<masses, velocities, trajectories, initial_separation, pc, stage,
                   pos_arg, vel_arg, old_pos, k, accelerations, entry, h_pos, h_chaos>>

NextChaos == \E d \in ProbeSeparations : AnalyzeChaosAt(d)

SpecChaos == Init /\ [][NextChaos]_vars

(***************************************************************************)
(* compute_accelerations and adjust_center_of_mass on chosen inputs: the   *)
(* program's own initial data, and every placement of the bodies 1 and 2   *)
(* on a small grid around body 0, under the program's masses, unit masses  *)
(* and one heavy body among unit masses.                                   *)
(***************************************************************************)
Grid == (0 - GridMax) .. GridMax

ProbeMasses ==
    {InitialMasses, [i \in Bodies |-> 1]}
        \cup {[i \in Bodies |-> IF i = b THEN ProbeMassMax ELSE 1] : b \in Bodies}

ConstructedPositions ==
    adjust_center_of_mass(InitialMasses, InitialPositions, InitialVelocities).positions

ProbePositions ==
    {InitialPositions, ConstructedPositions}
        \cup {[i \in Bodies |-> IF i = 0 THEN ZeroVec ELSE IF i = 1 THEN a ELSE b] :
                a \in Grid \X Grid, b \in Grid \X Grid}

InitProbe ==
    /\ masses \in ProbeMasses
    /\ positions \in ProbePositions
    /\ velocities \in {InitialVelocities, [i \in Bodies |-> positions[(i + 1) % 3]]}
    /\ time = 0
    /\ trajectories = [i \in Bodies |-> <<>>]
    /\ chaos_data = [times |-> <<>>, separations |-> <<>>, lyapunov |-> <<>>]
    /\ initial_separation = 0
    /\ pc = "probe"
    /\ stage = 0
    /\ pos_arg = NoRef
    /\ vel_arg = NoRef
    /\ old_pos = NoRef
    /\ k = NoLocals
    /\ accelerations = [a |-> ZeroArray, finite |-> TRUE]
    /\ entry = EntryState
    /\ calls = 0
    /\ h_pos = <<>>
    /\ h_chaos = <<>>

\* acc = self.compute_accelerations()
ComputeAccelerations ==
    /\ pc = "probe"
    /\ accelerations' = compute_accelerations(positions, masses)
    /\ pc' = "accelerated"
    /\ UNCHANGED <<masses, positions, velocities, time, trajectories, chaos_data,
                   initial_separation, stage, pos_arg, vel_arg, old_pos, k, entry,
                   calls, h_pos, h_chaos>>

\* self.adjust_center_of_mass()
AdjustCenterOfMass ==
    /\ pc = "probe"
    /\ positions' = adjust_center_of_mass(masses, positions, velocities).positions
    /\ velocities' = adjust_center_of_mass(masses, positions, velocities).velocities
    /\ pc' = "adjusted"
    /\ UNCHANGED <<masses, time, trajectories, chaos_data, initial_separation, stage,
                   pos_arg, vel_arg, old_pos, k, accelerations, entry, calls, h_pos,
                   h_chaos>>

NextProbe == ComputeAccelerations \/ AdjustCenterOfMass

SpecPure == InitProbe /\ [][NextProbe]_vars

(***************************************************************************)
(* The claims.                                                             *)
(***************************************************************************)
\* q2 is q with exactly one entry appended, the oldest dropped from a full q.
OneAppended(q, q2, maxlen) ==
    /\ Len(q2) = Min(Len(q) + 1, maxlen)
    /\ SubSeq(q2, 1, Len(q2) - 1) = SubSeq(q, Len(q) - Len(q2) + 2, Len(q))

\* C1: every update_system call is exactly one step: before call number
\* n+1 the time is n*dt; the call adds exactly dt to it, appends exactly one
\* entry to each of the three trajectories and exactly one entry to each of
\* chaos_data's times, separations and lyapunov.
C1_OneStepPerCall ==
    [][/\ time = calls * dt
       /\ calls' = calls + 1
       /\ time' = time + dt
       /\ time' = calls' * dt
       /\ \A i \in Bodies : OneAppended(trajectories[i], trajectories'[i], trajectory_length)
       /\ OneAppended(chaos_data.times, chaos_data'.times, CHAOS_MAXLEN)
       /\ OneAppended(chaos_data.separations, chaos_data'.separations, CHAOS_MAXLEN)
       /\ OneAppended(chaos_data.lyapunov, chaos_data'.lyapunov, CHAOS_MAXLEN)]_vars

C1_Witness ==
    /\ calls = 3
    /\ time = 3 * dt
    /\ \A i \in Bodies : Len(trajectories[i]) = 3
    /\ Len(chaos_data.lyapunov) = 3

\* C2: while the chaos series holds fewer than 10 samples (the one just
\* appended included), the lyapunov value appended is 0 whatever the
\* separation ratios are: the first 9 entries of lyapunov are all 0.
C2_FirstNineZero ==
    \A n \in 1 .. Len(chaos_data.lyapunov) :
        n < 10 => chaos_data.lyapunov[n] = 0

C2_Witness ==
    /\ Len(chaos_data.lyapunov) = 9
    /\ Len(chaos_data.separations) = 9
    /\ chaos_data.separations[1] = RATIO_ONE
    /\ chaos_data.separations[5] = 0
    /\ chaos_data.separations[9] = 2 * RATIO_ONE

\* The records of the steps first..last, as the series of their component c.
RecordsOf(h, first, last, c) == [n \in 1 .. (last - first + 1) |-> h[first + n - 1][c]]

\* C3: after n calls the three series of chaos_data have the same length
\* min(n, 1000), and together they hold, in step order, the (years, ratio,
\* lyapunov) records of the most recent min(n, 1000) steps.
C3_ChaosRing ==
    LET len == Min(calls, CHAOS_MAXLEN)
    IN  /\ Len(h_chaos) = calls
        /\ Len(chaos_data.times) = len
        /\ Len(chaos_data.separations) = len
        /\ Len(chaos_data.lyapunov) = len
        /\ chaos_data.times = RecordsOf(h_chaos, calls - len + 1, calls, 1)
        /\ chaos_data.separations = RecordsOf(h_chaos, calls - len + 1, calls, 2)
        /\ chaos_data.lyapunov = RecordsOf(h_chaos, calls - len + 1, calls, 3)

C3_Witness ==
    /\ calls > CHAOS_MAXLEN
    /\ Len(chaos_data.times) = CHAOS_MAXLEN
    /\ chaos_data.times[1] = YearsOf((calls - CHAOS_MAXLEN + 1) * dt)
    /\ chaos_data.times[CHAOS_MAXLEN] = YearsOf(calls * dt)

\* The 2-vectors the entries of the trajectory q stand for at positions P.
Seen(q, P) == [n \in 1 .. Len(q) |-> RowIn(q[n], P)]

\* C4: after n calls each trajectory has length min(n, 500), holds the
\* body's positions after the most recent min(n, 500) steps in step order,
\* and ends with the body's current position.
C4_TrajectoryFifo ==
    LET len == Min(calls, trajectory_length)
    IN  /\ Len(h_pos) = calls
        /\ \A i \in Bodies :
              /\ Len(trajectories[i]) = len
              /\ Seen(trajectories[i], positions)
                     = [n \in 1 .. len |-> h_pos[calls - len + n][i]]
              /\ len > 0 => RowIn(trajectories[i][len], positions) = positions[i]

C4_Witness ==
    /\ calls > trajectory_length
    /\ \A i \in Bodies :
          /\ Len(trajectories[i]) = trajectory_length
          /\ RowIn(trajectories[i][1], positions) = h_pos[calls - trajectory_length + 1][i]
          /\ RowIn(trajectories[i][1], positions) # h_pos[1][i]

\* C5: a call of derivatives leaves the state as it found it: between the
\* calls (and before the combined update) self.positions is what it was
\* when update_system was called, and throughout the stages velocities,
\* masses and time are; inside a call old_pos holds the pre-step positions.
C5_StagesLeaveState ==
    pc \in {"call", "eval", "combine"} =>
        /\ velocities = entry.velocities
        /\ masses = entry.masses
        /\ time = entry.time
        /\ pc \in {"call", "combine"} => positions = entry.positions
        /\ pc = "eval" => Deref(old_pos) = entry.positions

C5_Witness ==
    /\ pc = "call"
    /\ stage = 3
    /\ Deref(pos_arg) # entry.positions
    /\ positions = entry.positions
    /\ Deref(k[1].pos) = entry.velocities

\* C10: what the histories hold are values: across every step of the
\* program, the writes of self.positions inside derivatives included, each
\* trajectory entry and each chaos record that is not evicted keeps the
\* value it was appended with.
C10_HistoriesKeepValues ==
    [][IF h_pos' = h_pos
       THEN /\ \A i \in Bodies :
                  Seen(trajectories'[i], positions') = Seen(trajectories[i], positions)
            /\ chaos_data' = chaos_data
       ELSE /\ \A i \in Bodies :
                  OneAppended(Seen(trajectories[i], positions),
                              Seen(trajectories'[i], positions'), trajectory_length)
            /\ OneAppended(chaos_data.times, chaos_data'.times, CHAOS_MAXLEN)
            /\ OneAppended(chaos_data.separations, chaos_data'.separations, CHAOS_MAXLEN)
            /\ OneAppended(chaos_data.lyapunov, chaos_data'.lyapunov, CHAOS_MAXLEN)]_vars

C10_Witness ==
    /\ pc = "eval"
    /\ stage = 2
    /\ calls = 3
    /\ positions # entry.positions
    /\ \A i \in Bodies :
          /\ Len(trajectories[i]) = 2
          /\ RowIn(trajectories[i][2], positions) = entry.positions[i]
          /\ RowIn(trajectories[i][1], positions) = h_pos[1][i]

\* The force on body i due to body j, component c: masses[i] times the
\* term compute_accelerations adds to accelerations[i] for the pair.
ForceOn(p, m, i, j, c) == m[i] * PairTerm(p, m, i, j)[c]

\* C7: at every placement of the bodies, coincident ones included, the
\* softened distance of every ordered pair is positive, so nothing is
\* divided by zero and the result is finite; a coincident pair adds a zero
\* acceleration.
C7_SofteningKeepsFinite ==
    pc = "accelerated" =>
        /\ accelerations.finite
        /\ \A i \in Bodies : \A j \in Bodies \ {i} :
              /\ distance_softened(positions, i, j) > 0
              /\ positions[i] = positions[j] => PairTerm(positions, masses, i, j) = ZeroVec

C7_Witness ==
    /\ pc = "accelerated"
    /\ positions[0] = positions[1]
    /\ positions[1] = positions[2]
    /\ accelerations.finite
    /\ accelerations.a = ZeroArray

\* C8 (amended): Newton's third law holds up to rounding: for every pair
\* the two forces have opposite signs and their sum is smaller than one
\* rounding unit of acceleration on each of the two masses; the
\* mass-weighted sum of the accelerations is within that tolerance of zero.
C8_ThirdLawUpToRounding ==
    pc = "accelerated" =>
        /\ \A i \in Bodies : \A j \in Bodies \ {i} : \A c \in Axes :
              /\ Abs(ForceOn(positions, masses, i, j, c) + ForceOn(positions, masses, j, i, c))
                     < masses[i] + masses[j]
              /\ ForceOn(positions, masses, i, j, c) * ForceOn(positions, masses, j, i, c) <= 0
        /\ \A c \in Axes :
              Abs(WeightedSum(masses, accelerations.a, c)) < 2 * TotalMass(masses)

C8_Witness ==
    /\ pc = "accelerated"
    /\ masses = InitialMasses
    /\ positions = ConstructedPositions
    /\ ForceOn(positions, masses, 1, 0, 1) # 0
    /\ ForceOn(positions, masses, 0, 1, 1) + ForceOn(positions, masses, 1, 0, 1) # 0
    /\ accelerations.a[1] # ZeroVec

\* C8 as stated: the two forces of every pair cancel exactly and the
\* mass-weighted sum of the accelerations is the zero vector (here at the
\* state the constructor leaves).
C8_ThirdLawExact ==
    (pc = "accelerated" /\ masses = InitialMasses /\ positions = ConstructedPositions) =>
        /\ \A i \in Bodies : \A j \in Bodies \ {i} : \A c \in Axes :
              ForceOn(positions, masses, i, j, c) + ForceOn(positions, masses, j, i, c) = 0
        /\ \A c \in Axes : WeightedSum(masses, accelerations.a, c) = 0

\* The rows of x differ pairwise as the rows of y do.
SameDifferences(x, y) ==
    \A i \in Bodies : \A j \in Bodies : VecSub(x[i], x[j]) = VecSub(y[i], y[j])

\* C9 (amended): after adjust_center_of_mass the mass-weighted sums of the
\* positions and of the velocities are zero up to the rounding of the
\* centre-of-mass division (at most half a unit times the total mass), and
\* all pairwise differences are those of the unadjusted data.
C9_CenterOfMassUpToRounding ==
    pc = "adjusted" =>
        /\ \A c \in Axes :
              /\ 2 * Abs(WeightedSum(masses, positions, c)) <= TotalMass(masses)
              /\ 2 * Abs(WeightedSum(masses, velocities, c)) <= TotalMass(masses)
        /\ SameDifferences(positions, entry.positions)
        /\ SameDifferences(velocities, entry.velocities)

ConstructorData ==
    /\ entry.masses = InitialMasses
    /\ entry.positions = InitialPositions
    /\ entry.velocities = InitialVelocities

C9_Witness ==
    /\ pc = "adjusted"
    /\ ConstructorData
    /\ positions # entry.positions
    /\ velocities # entry.velocities
    /\ WeightedSum(masses, positions, 1) # 0

\* C9 as stated: right after construction the mass-weighted sums of the
\* positions and of the velocities are zero.
C9_CenterOfMassExact ==
    (pc = "adjusted" /\ ConstructorData) =>
        \A c \in Axes :
            /\ WeightedSum(masses, positions, c) = 0
            /\ WeightedSum(masses, velocities, c) = 0

====
